---- MODULE Spec2Model ----
(***************************************************************************)
(* Model of the hybrid retrieval pipeline of the travel assistant:         *)
(* src/sub_agents/search_agent/tools.py (connection manager, embedding     *)
(* client, filter compiler, query builder, query executor), the agent      *)
(* callback of src/agent.py and the configuration of src/config.py.        *)
(*                                                                         *)
(* Text is modelled as a sequence of one-character strings, so that the    *)
(* safety-gate regular expression, the statement built by concatenation    *)
(* and the backend's reading of that statement work on characters.         *)
(***************************************************************************)
EXTENDS Integers, Sequences, FiniteSets, TLC

\* Optional values: Python's None and a present value, for texts and lists
\* (NoneSeq) and for integers (NoneInt). A connection handle is a positive
\* number; NoConn stands for None.
NoneSeq == [is_none |-> TRUE, value |-> <<>>]
NoneInt == [is_none |-> TRUE, value |-> 0]
Some(v) == [is_none |-> FALSE, value |-> v]
NoConn == 0

(***************************************************************************)
(* Bounds of the model.                                                    *)
(***************************************************************************)
\* Connections established in one process.
MaxConns == 2
\* Threads that call setup_sqlite_client at the same time.
NumThreads == 2
\* Parts of the last content item of a model request.
MaxParts == 2
\* Rows of the activities table that a statement can match.
TableRows == 2

(***************************************************************************)
(* Characters.                                                             *)
(***************************************************************************)
LowerCaseLetters ==
    {"a","b","c","d","e","f","g","h","i","j","k","l","m",
     "n","o","p","q","r","s","t","u","v","w","x","y","z"}

ToLowerMap ==
    [A |-> "a", B |-> "b", C |-> "c", D |-> "d", E |-> "e", F |-> "f", G |-> "g",
     H |-> "h", I |-> "i", J |-> "j", K |-> "k", L |-> "l", M |-> "m", N |-> "n",
     O |-> "o", P |-> "p", Q |-> "q", R |-> "r", S |-> "s", T |-> "t", U |-> "u",
     V |-> "v", W |-> "w", X |-> "x", Y |-> "y", Z |-> "z"]

Digits == {"0","1","2","3","4","5","6","7","8","9"}

DigitChars == <<"0","1","2","3","4","5","6","7","8","9">>

UpperCaseLetters == DOMAIN ToLowerMap

\* \w of the re module: letters, digits and the underscore.
WordChars == LowerCaseLetters \cup UpperCaseLetters \cup Digits \cup {"_"}

IsWordChar(c) == c \in WordChars

\* Case folding of (?i) for the ASCII letters of the pattern.
ToLower(c) == IF c \in UpperCaseLetters THEN ToLowerMap[c] ELSE c

(***************************************************************************)
(* The safety gate of get_data_from_db_tool:                               *)
(*   re.search(r"(?i)\b(update|delete|drop|insert|create|alter|truncate|   *)
(*                      merge)\b", sql_string)                             *)
(***************************************************************************)
DENYLIST ==
    { <<"u","p","d","a","t","e">>,
      <<"d","e","l","e","t","e">>,
      <<"d","r","o","p">>,
      <<"i","n","s","e","r","t">>,
      <<"c","r","e","a","t","e">>,
      <<"a","l","t","e","r">>,
      <<"t","r","u","n","c","a","t","e">>,
      <<"m","e","r","g","e">> }

\* \b at the position before s[i] (i in 1..Len(s)+1): exactly one of the two
\* neighbouring characters is a word character; the ends of the text count
\* as non-word.
WordBoundary(s, i) ==
    LET before == i > 1 /\ IsWordChar(s[i - 1])
        after  == i <= Len(s) /\ IsWordChar(s[i])
    IN  before # after

\* The keyword kw matches at s[i..], letters compared case-insensitively.
MatchesAt(s, i, kw) ==
    /\ i + Len(kw) - 1 <= Len(s)
    /\ \A j \in 1..Len(kw) : ToLower(s[i + j - 1]) = kw[j]

\* A mutation of the gate: the (?i) flag is dropped.
MatchesAtCaseSensitive(s, i, kw) ==
    /\ i + Len(kw) - 1 <= Len(s)
    /\ \A j \in 1..Len(kw) : s[i + j - 1] = kw[j]

DisallowedStatementCaseSensitive(sql_string) ==
    \E i \in 1..Len(sql_string) :
        /\ WordBoundary(sql_string, i)
        /\ \E kw \in DENYLIST :
              /\ MatchesAtCaseSensitive(sql_string, i, kw)
              /\ WordBoundary(sql_string, i + Len(kw))

\* re.search(...) is not None.
DisallowedStatement(sql_string) ==
    \E i \in 1..Len(sql_string) :
        /\ WordBoundary(sql_string, i)
        /\ \E kw \in DENYLIST :
              /\ MatchesAt(sql_string, i, kw)
              /\ WordBoundary(sql_string, i + Len(kw))

(***************************************************************************)
(* Formatting of values into the statement (f-strings).                    *)
(***************************************************************************)
RECURSIVE NatToChars(_)
NatToChars(n) ==
    IF n < 10 THEN <<DigitChars[n + 1]>>
    ELSE NatToChars(n \div 10) \o <<DigitChars[(n % 10) + 1]>>

\* str(int): f"{configs.max_rows}".
IntToChars(n) == IF n < 0 THEN <<"-">> \o NatToChars(0 - n) ELSE NatToChars(n)

RECURSIVE JoinFloats(_)
JoinFloats(fs) ==
    IF fs = <<>> THEN <<>>
    ELSE IF Len(fs) = 1 THEN fs[1]
    ELSE fs[1] \o <<",", " ">> \o JoinFloats(Tail(fs))

\* str(list[float]): f"{embedding}", each float given by its repr.
EmbeddingToChars(embedding) == <<"[">> \o JoinFloats(embedding) \o <<"]">>

\* Truthiness of `if embedding:` and `if where_clause:`: None, the empty
\* list and the empty string are false.
Truthy(v) == ~v.is_none /\ v.value # <<>>

(***************************************************************************)
(* The fragments get_activities_tool concatenates.                         *)
(***************************************************************************)
SELECT_COLUMNS ==
    <<"S","E","L","E","C","T"," ","a","c","t","i","v","i","t","y","_","i","d",","," ","n","a","m",
      "e",","," ","d","e","s","c","r","i","p","t","i","o","n",","," ","c","o","s","t",","," ","d",
      "u","r","a","t","i","o","n","_","m","i","n",","," ","d","u","r","a","t","i","o","n","_","m",
      "a","x",","," ","k","i","d","_","f","r","i","e","n","d","l","i","n","e","s","s","_","s","c",
      "o","r","e",","," ","s","i","g","h","t","_","i","d"," ">>

PG_SCORE_OPEN ==
    <<","," ","(","e","m","b","e","d","d","i","n","g"," ","<","=",">"," ","'">>

PG_SCORE_CLOSE ==
    <<"'",")"," ","A","S"," ","s","c","o","r","e"," ">>

SQLITE_SCORE_OPEN ==
    <<","," ","v","e","c","_","d","i","s","t","a","n","c","e","_","c","o","s","i","n","e","(","e",
      "m","b","e","d","d","i","n","g",","," ","v","e","c","_","f","3","2","(","'">>

SQLITE_SCORE_CLOSE ==
    <<"'",")",")"," ","A","S"," ","s","c","o","r","e"," ">>

CONST_SCORE ==
    <<","," ","0"," ","A","S"," ","s","c","o","r","e"," ">>

FROM_ACTIVITIES ==
    <<"F","R","O","M"," ","a","c","t","i","v","i","t","i","e","s"," ">>

WHERE_KW ==
    <<"W","H","E","R","E"," ">>

ORDER_LIMIT ==
    <<"O","R","D","E","R"," ","B","Y"," ","s","c","o","r","e"," ","A","S","C"," ","L","I","M","I",
      "T"," ">>

\* The literals of the SQLite branch (lines 296-306).
SQLITE_SELECT_COLUMNS ==
    <<"S","E","L","E","C","T"," ","a","c","t","i","v","i","t","y","_","i","d",","," ","n",
      "a","m","e",","," ","d","e","s","c","r","i","p","t","i","o","n",","," ","c","o","s",
      "t",","," ","d","u","r","a","t","i","o","n","_","m","i","n",","," ","d","u","r","a",
      "t","i","o","n","_","m","a","x",","," ","k","i","d","_","f","r","i","e","n","d","l",
      "i","n","e","s","s","_","s","c","o","r","e",","," ","s","i","g","h","t","_","i","d",
      " ">>

SQLITE_CONST_SCORE ==
    <<","," ","0"," ","A","S"," ","s","c","o","r","e"," ">>

SQLITE_FROM_ACTIVITIES ==
    <<"F","R","O","M"," ","a","c","t","i","v","i","t","i","e","s"," ">>

SQLITE_WHERE_KW ==
    <<"W","H","E","R","E"," ">>

SQLITE_ORDER_LIMIT ==
    <<"O","R","D","E","R"," ","B","Y"," ","s","c","o","r","e"," ","A","S","C"," ","L","I",
      "M","I","T"," ">>

\* A mutation of the score column: the constant score whatever the embedding.
ScoreFragmentConstant(backend, embedding) ==
    IF backend = "postgres" THEN CONST_SCORE ELSE SQLITE_CONST_SCORE

\* The score column of the statement for one backend.
ScoreFragment(backend, embedding) ==
    IF backend = "postgres"
    THEN IF Truthy(embedding)
         THEN PG_SCORE_OPEN \o EmbeddingToChars(embedding.value) \o PG_SCORE_CLOSE
         ELSE CONST_SCORE
    ELSE IF Truthy(embedding)
         THEN SQLITE_SCORE_OPEN \o EmbeddingToChars(embedding.value) \o SQLITE_SCORE_CLOSE
         ELSE SQLITE_CONST_SCORE

\* A mutation of the WHERE fragment: the clause is added whatever the
\* predicate is.
WhereFragmentUnconditional(where_clause) ==
    WHERE_KW \o where_clause.value \o <<" ">>

\* f"WHERE {where_clause} " when the predicate is present (Postgres branch).
WhereFragment(where_clause) ==
    IF Truthy(where_clause) THEN WHERE_KW \o where_clause.value \o <<" ">> ELSE <<>>

\* The same of the SQLite branch (lines 303-304).
SqliteWhereFragment(where_clause) ==
    IF Truthy(where_clause) THEN SQLITE_WHERE_KW \o where_clause.value \o <<" ">> ELSE <<>>

\* f"ORDER BY score ASC LIMIT {configs.max_rows};" (Postgres branch)
OrderLimitFragment(rows) == ORDER_LIMIT \o IntToChars(rows) \o <<";">>

\* The same of the SQLite branch (line 306).
SqliteOrderLimitFragment(rows) == SQLITE_ORDER_LIMIT \o IntToChars(rows) \o <<";">>

\* A mutation of the builder: the Postgres branch has no ORDER BY ... LIMIT.
BuildSqlQueryPostgresUnlimited(backend, embedding, where_clause, rows) ==
    IF backend = "postgres"
    THEN SELECT_COLUMNS \o ScoreFragment(backend, embedding) \o FROM_ACTIVITIES
             \o WhereFragment(where_clause) \o <<";">>
    ELSE SQLITE_SELECT_COLUMNS \o ScoreFragment(backend, embedding)
             \o SQLITE_FROM_ACTIVITIES \o SqliteWhereFragment(where_clause)
             \o SqliteOrderLimitFragment(rows)

\* The statement of get_activities_tool: the branch of db_type postgres
\* (lines 273-292) and the branch of sqlite (lines 294-306).
BuildSqlQuery(backend, embedding, where_clause, rows) ==
    IF backend = "postgres"
    THEN SELECT_COLUMNS \o ScoreFragment(backend, embedding) \o FROM_ACTIVITIES
             \o WhereFragment(where_clause) \o OrderLimitFragment(rows)
    ELSE SQLITE_SELECT_COLUMNS \o ScoreFragment(backend, embedding)
             \o SQLITE_FROM_ACTIVITIES \o SqliteWhereFragment(where_clause)
             \o SqliteOrderLimitFragment(rows)

(***************************************************************************)
(* The backend's reading of a statement (cur.execute / cur.fetchall).      *)
(* The table holds at most TableRows rows; `matching` is the sequence of   *)
(* rows the statement selects, in score order, each row "ok" when it       *)
(* converts into an activity and "bad" when it does not.                   *)
(***************************************************************************)
LIMIT_KW == <<"L","I","M","I","T"," ">>

\* "--" starts a comment that runs to the end of the line; the statement is
\* one line, so everything after it is not part of the statement.
CommentStart(s) ==
    IF \E i \in 1..(Len(s) - 1) : s[i] = "-" /\ s[i + 1] = "-"
    THEN CHOOSE i \in 1..(Len(s) - 1) :
            /\ s[i] = "-" /\ s[i + 1] = "-"
            /\ \A j \in 1..(i - 1) : ~(s[j] = "-" /\ s[j + 1] = "-")
    ELSE 0

StripComment(s) == IF CommentStart(s) = 0 THEN s ELSE SubSeq(s, 1, CommentStart(s) - 1)

IsIntLiteral(cs) ==
    /\ cs # <<>>
    /\ IF cs[1] = "-"
       THEN Len(cs) > 1 /\ \A j \in 2..Len(cs) : cs[j] \in Digits
       ELSE \A j \in 1..Len(cs) : cs[j] \in Digits

DigitValue(c) == CHOOSE d \in 0..9 : DigitChars[d + 1] = c

RECURSIVE CharsToNat(_)
CharsToNat(cs) ==
    IF cs = <<>> THEN 0
    ELSE 10 * CharsToNat(SubSeq(cs, 1, Len(cs) - 1)) + DigitValue(cs[Len(cs)])

CharsToInt(cs) == IF cs[1] = "-" THEN 0 - CharsToNat(Tail(cs)) ELSE CharsToNat(cs)

\* Position of a trailing "LIMIT <int>;" (or "LIMIT <int>") of the text t,
\* 0 when there is none.
LimitStart(t) ==
    LET body == IF t # <<>> /\ t[Len(t)] = ";" THEN SubSeq(t, 1, Len(t) - 1) ELSE t
        starts == { i \in 1..Len(body) :
                      /\ body[i] = "L"
                      /\ i + 6 <= Len(body)
                      /\ SubSeq(body, i, i + 5) = LIMIT_KW
                      /\ IsIntLiteral(SubSeq(body, i + 6, Len(body))) }
    IN  IF starts = {} THEN 0 ELSE CHOOSE i \in starts : \A j \in starts : j <= i

\* The LIMIT in force for the statement: an integer, or None when the
\* statement that reaches the backend has no LIMIT clause.
StatementLimit(sql_string) ==
    LET t    == StripComment(sql_string)
        body == IF t # <<>> /\ t[Len(t)] = ";" THEN SubSeq(t, 1, Len(t) - 1) ELSE t
        i    == LimitStart(t)
    IN  IF i = 0 THEN NoneInt ELSE Some(CharsToInt(SubSeq(body, i + 6, Len(body))))

Min(a, b) == IF a <= b THEN a ELSE b

\* Outcome of executing a statement whose LIMIT in force is `limit`:
\* SQLite reads a negative LIMIT as no limit, Postgres rejects it.
BackendResult(backend, limit, matching) ==
    IF limit.is_none THEN [error |-> FALSE, rows |-> matching]
    ELSE IF limit.value < 0
         THEN IF backend = "postgres"
              THEN [error |-> TRUE, rows |-> <<>>]
              ELSE [error |-> FALSE, rows |-> matching]
         ELSE [error |-> FALSE,
               rows |-> SubSeq(matching, 1, Min(limit.value, Len(matching)))]

(***************************************************************************)
(* Configuration values and inputs.                                        *)
(***************************************************************************)
\* DB_TYPE, MAX_NUM_ROWS and DEBUG_STATE come from the process environment.
\* max_rows is any integer (no validation): one value below the table size
\* and one negative value are taken.
DbTypes == {"sqlite", "postgres"}
MaxRowsValues == {-1, 1}

\* Statements handed to get_data_from_db_tool by a direct caller.
DirectStatements ==
    { <<"S","E","L","E","C","T"," ","1",";">>,
      <<"d","r","o","p"," ","t">>,
      <<"D","R","O","P"," ","t">>,
      <<"x",".","M","e","r","g","e",";">>,
      <<"d","r","o","p","p","e","d">>,
      <<"a","_","d","r","o","p">> }

(***************************************************************************)
(* Embedding Client and Filter Compiler.                                   *)
(***************************************************************************)
\* What the embedding service does for one request: it raises an exception
\* of class `raises` ("" when it does not) or answers with `values`.
\* RequestException and JSONDecodeError are the two classes the tool
\* catches; APIError stands for every other class (the errors of the genai
\* client, an index error on an empty answer).
EmbeddingVectors ==
    { << <<"0",".","1">>, <<"-","0",".","2">> >> }

EmbedResponses ==
    { [raises |-> "", values |-> v] : v \in EmbeddingVectors }
    \cup { [raises |-> e, values |-> <<>>] :
             e \in {"RequestException", "JSONDecodeError", "APIError"} }

get_embedding_tool(response) ==
    IF response.raises = ""
    THEN [status |-> "returned", exc |-> "", value |-> Some(response.values)]
    ELSE IF response.raises \in {"RequestException", "JSONDecodeError"}
    THEN [status |-> "returned", exc |-> "", value |-> NoneSeq]
    ELSE [status |-> "raised", exc |-> response.raises, value |-> NoneSeq]

\* What the generative model does for one compilation: the call raises, or
\* it answers a text that is not JSON ("malformed"), JSON that is not an
\* object ("array"), or an object, with or without a "where" member.
WhereTexts ==
    { <<"c","o","s","t"," ","<"," ","1","0">>,
      <<"c","o","s","t"," ","<"," ","1","0"," ","-","-">>,
      <<"n","a","m","e"," ","="," ","'","D","e","l","e","t","e","'">> }

LlmResponses ==
    { [raises |-> TRUE, json |-> "object", has_where |-> FALSE, where |-> <<>>],
      [raises |-> FALSE, json |-> "malformed", has_where |-> FALSE, where |-> <<>>],
      [raises |-> FALSE, json |-> "array", has_where |-> FALSE, where |-> <<>>],
      [raises |-> FALSE, json |-> "object", has_where |-> FALSE, where |-> <<>>] }
    \cup { [raises |-> FALSE, json |-> "object", has_where |-> TRUE, where |-> w] :
             w \in WhereTexts }

\* A mutation of the filter compiler: the exception is not caught.
get_sql_where_clause_tool_uncaught(response) ==
    IF response.raises \/ response.json # "object"
    THEN [status |-> "raised", value |-> NoneSeq]
    ELSE [status |-> "returned",
          value |-> IF response.has_where THEN Some(response.where) ELSE Some(<<>>)]

\* The try block: generate_content, json.loads, json_obj.get("where", "");
\* `except Exception` returns None.
get_sql_where_clause_tool(response) ==
    IF response.raises \/ response.json # "object"
    THEN [status |-> "returned", value |-> NoneSeq]
    ELSE [status |-> "returned",
          value |-> IF response.has_where THEN Some(response.where) ELSE Some(<<>>)]

(***************************************************************************)
(* What the environment decides during one call: whether the backend       *)
(* accepts a connection, whether the extension loads, whether the          *)
(* bootstrap script is there and runs, whether a cursor can be opened,     *)
(* how the statement's execution ends, the rows it matches, and whether    *)
(* the debug trace write succeeds.                                         *)
(***************************************************************************)
BaseEnv ==
    [connect_ok |-> TRUE, ext_ok |-> TRUE, file_exists |-> TRUE, script_ok |-> TRUE,
     cursor_ok |-> TRUE, exec |-> "ok", matching |-> <<>>, trace_ok |-> TRUE]

AcquireEnvs ==
    { BaseEnv,
      [BaseEnv EXCEPT !.connect_ok = FALSE],
      [BaseEnv EXCEPT !.ext_ok = FALSE],
      [BaseEnv EXCEPT !.file_exists = FALSE],
      [BaseEnv EXCEPT !.script_ok = FALSE] }

Matchings == UNION { [1..n -> {"ok", "bad"}] : n \in 0..TableRows }

\* write_to_tool_context("get_data_from_db_tool_output", ...), the write of
\* the list of activity objects that is made only under debug_state with a
\* tool context: it succeeds (TRUE) or raises (FALSE). The writes of plain
\* texts are taken to succeed.
TraceWriteOutcomes(debug) == IF debug THEN BOOLEAN ELSE {TRUE}

QueryEnvs(e0, debug) ==
    { [e0 EXCEPT !.cursor_ok = FALSE],
      [e0 EXCEPT !.exec = "db_error"],
      [e0 EXCEPT !.exec = "other_error"] }
    \cup { [e0 EXCEPT !.matching = m, !.trace_ok = t] :
             m \in Matchings, t \in TraceWriteOutcomes(debug) }

(***************************************************************************)
(* Connection Manager.  The module-level state is passed as a record g:    *)
(*   sqlite_conn, postgres_conn   the cached handles (_sqlite_conn,        *)
(*                                _postgres_conn), NoConn for None         *)
(*   created                      the number of connections established so *)
(*                                far (a connection that is dropped while  *)
(*                                it is set up is not counted); the next   *)
(*                                one gets the handle created + 1          *)
(*   pg_dead                      the cached Postgres connection no longer *)
(*                                answers                                  *)
(*   pg_table_exists              public.activities exists on the server   *)
(*   bootstrap_runs               per backend, how many times the          *)
(*                                bootstrap script has run to completion   *)
(*   sqlite_vec                   the sqlite-vec extension is loaded in    *)
(*                                the cached SQLite connection             *)
(* Each operator returns the new state g, the handle returned (ret), and   *)
(* what the acquisition did: connections it attempted to establish         *)
(* (connects) and extension loads it attempted (ext_loads).                *)
(***************************************************************************)
\* A mutation of setup_sqlite_client: the handle is not kept in the
\* module-level variable, so every acquisition hydrates a new database.
setup_sqlite_client_uncached(g, env) ==
    IF ~env.file_exists
    THEN [g |-> [g EXCEPT !.sqlite_conn = NoConn], ret |-> NoConn,
          connects |-> 0, ext_loads |-> 0]
    ELSE IF ~env.connect_ok \/ ~env.script_ok
    THEN [g |-> [g EXCEPT !.sqlite_conn = NoConn], ret |-> NoConn,
          connects |-> 1, ext_loads |-> 0]
    ELSE [g |-> [g EXCEPT !.created = @ + 1, !.bootstrap_runs.sqlite = @ + 1,
                          !.sqlite_vec = env.ext_ok],
          ret |-> g.created + 1, connects |-> 1, ext_loads |-> 1]

\* A mutation of setup_sqlite_client: the handler of a failed executescript
\* does not reset _sqlite_conn, so the connection without data stays cached.
setup_sqlite_client_keeps_failed(g, env) ==
    IF g.sqlite_conn = NoConn
    THEN IF ~env.file_exists
         THEN [g |-> g, ret |-> NoConn, connects |-> 0, ext_loads |-> 0]
         ELSE IF ~env.connect_ok
         THEN [g |-> g, ret |-> NoConn, connects |-> 1, ext_loads |-> 0]
         ELSE IF ~env.script_ok
         THEN [g |-> [g EXCEPT !.sqlite_conn = g.created + 1, !.created = @ + 1],
               ret |-> NoConn, connects |-> 1, ext_loads |-> 0]
         ELSE [g |-> [g EXCEPT !.sqlite_conn = g.created + 1, !.created = @ + 1,
                               !.bootstrap_runs.sqlite = @ + 1,
                               !.sqlite_vec = env.ext_ok],
               ret |-> g.created + 1, connects |-> 1, ext_loads |-> 1]
    ELSE [g |-> g, ret |-> g.sqlite_conn, connects |-> 0, ext_loads |-> 0]

\* A mutation of setup_sqlite_client: a failed extension load is not caught
\* by the inner try and fails the acquisition.
setup_sqlite_client_extension_required(g, env) ==
    IF g.sqlite_conn = NoConn
    THEN IF ~env.file_exists
         THEN [g |-> g, ret |-> NoConn, connects |-> 0, ext_loads |-> 0]
         ELSE IF ~env.connect_ok \/ ~env.script_ok
         THEN [g |-> g, ret |-> NoConn, connects |-> 1, ext_loads |-> 0]
         ELSE IF ~env.ext_ok
         THEN [g |-> g, ret |-> NoConn, connects |-> 1, ext_loads |-> 1]
         ELSE [g |-> [g EXCEPT !.sqlite_conn = g.created + 1, !.created = @ + 1,
                               !.bootstrap_runs.sqlite = @ + 1, !.sqlite_vec = TRUE],
               ret |-> g.created + 1, connects |-> 1, ext_loads |-> 1]
    ELSE [g |-> g, ret |-> g.sqlite_conn, connects |-> 0, ext_loads |-> 0]

setup_sqlite_client(g, env) ==
    IF g.sqlite_conn = NoConn
    THEN IF ~env.file_exists
         \* raised before sqlite3.connect: nothing to close
         THEN [g |-> [g EXCEPT !.sqlite_conn = NoConn], ret |-> NoConn,
               connects |-> 0, ext_loads |-> 0]
         ELSE IF ~env.connect_ok
         \* sqlite3.connect raised before _sqlite_conn is assigned
         THEN [g |-> [g EXCEPT !.sqlite_conn = NoConn], ret |-> NoConn,
               connects |-> 1, ext_loads |-> 0]
         ELSE IF ~env.script_ok
         \* executescript raised: the handler closes the connection and
         \* resets _sqlite_conn
         THEN [g |-> [g EXCEPT !.sqlite_conn = NoConn], ret |-> NoConn,
               connects |-> 1, ext_loads |-> 0]
         \* a failed extension load is only logged
         ELSE [g |-> [g EXCEPT !.sqlite_conn = g.created + 1, !.created = @ + 1,
                               !.bootstrap_runs.sqlite = @ + 1,
                               !.sqlite_vec = env.ext_ok],
               ret |-> g.created + 1, connects |-> 1, ext_loads |-> 1]
    ELSE [g |-> g, ret |-> g.sqlite_conn, connects |-> 0, ext_loads |-> 0]

\* A mutation of setup_postgres_client: the cached connection is returned
\* without the liveness probe.
setup_postgres_client_unprobed(g, env, driver) ==
    IF ~driver
    THEN [g |-> g, ret |-> NoConn, connects |-> 0, ext_loads |-> 0]
    ELSE IF g.postgres_conn # NoConn
    THEN [g |-> g, ret |-> g.postgres_conn, connects |-> 0, ext_loads |-> 0]
    ELSE IF ~env.connect_ok \/ ~env.ext_ok
    THEN [g |-> g, ret |-> NoConn, connects |-> 1, ext_loads |-> 0]
    ELSE [g |-> [g EXCEPT !.postgres_conn = g.created + 1, !.created = @ + 1],
          ret |-> g.created + 1, connects |-> 1, ext_loads |-> 1]

setup_postgres_client(g, env, driver) ==
    IF ~driver
    THEN [g |-> g, ret |-> NoConn, connects |-> 0, ext_loads |-> 0]
    ELSE IF g.postgres_conn # NoConn /\ ~g.pg_dead
    \* SELECT 1 succeeded on the cached connection
    THEN [g |-> g, ret |-> g.postgres_conn, connects |-> 0, ext_loads |-> 0]
    ELSE LET g1 == [g EXCEPT !.postgres_conn = NoConn, !.pg_dead = FALSE]
         IN  IF ~env.connect_ok
             THEN [g |-> g1, ret |-> NoConn, connects |-> 1, ext_loads |-> 0]
             ELSE IF ~env.ext_ok
             \* CREATE EXTENSION raised
             THEN [g |-> g1, ret |-> NoConn, connects |-> 1, ext_loads |-> 1]
             ELSE IF ~g.pg_table_exists /\ env.file_exists
             THEN IF ~env.script_ok
                  THEN [g |-> g1, ret |-> NoConn, connects |-> 1, ext_loads |-> 1]
                  ELSE [g |-> [g1 EXCEPT !.postgres_conn = g.created + 1,
                                         !.created = @ + 1,
                                         !.pg_table_exists = TRUE,
                                         !.bootstrap_runs.postgres = @ + 1],
                        ret |-> g.created + 1, connects |-> 1, ext_loads |-> 1]
             \* the table is there, or the script file is not: no bootstrap
             ELSE [g |-> [g1 EXCEPT !.postgres_conn = g.created + 1,
                                    !.created = @ + 1],
                   ret |-> g.created + 1, connects |-> 1, ext_loads |-> 1]

\* A mutation of get_db_connection: an acquisition that returned None is
\* made once more.
get_db_connection_retrying(g, env, cfg) ==
    LET a == IF cfg.db_type = "postgres"
             THEN setup_postgres_client(g, env, cfg.psycopg2)
             ELSE setup_sqlite_client(g, env)
        b == IF cfg.db_type = "postgres"
             THEN setup_postgres_client(a.g, env, cfg.psycopg2)
             ELSE setup_sqlite_client(a.g, env)
    IN  IF a.ret # NoConn THEN a
        ELSE [b EXCEPT !.connects = a.connects + b.connects,
                       !.ext_loads = a.ext_loads + b.ext_loads]

get_db_connection(g, env, cfg) ==
    IF cfg.db_type = "postgres"
    THEN setup_postgres_client(g, env, cfg.psycopg2)
    ELSE setup_sqlite_client(g, env)

\* The callback registered as before_agent_callback in src/agent.py.
setup_db_resources(g, env, cfg) == setup_sqlite_client(g, env)

(***************************************************************************)
(* Query Executor: get_data_from_db_tool.                                  *)
(* A result object (actvities_search_output) is a record of                *)
(* activities_list (optional list) and error_message.  The formatted       *)
(* exception text that follows each message prefix is left out.            *)
(***************************************************************************)
ERR_DISALLOWED  == "Invalid SQL: Contains disallowed DML/DDL operations."
ERR_DATABASE    == "Invalid SQL: Database error - "
ERR_CONNECTION  == "Database Connection Error: "
ERR_UNEXPECTED  == "Invalid SQL: An unexpected error occurred - "
ERR_FORMAT      == "Error formatting row into activity object: "

\* actvities_search_output(error_message="")
NewOutput == [activities_list |-> NoneSeq, error_message |-> ""]

\* A mutation of the row mapping: the rows converted before the failing one
\* are kept in the result.
MapRowsKeepingPartial(output, rows, trace_fails) ==
    IF \E i \in 1..Len(rows) : rows[i] = "bad"
    THEN LET k == CHOOSE i \in 1..Len(rows) :
                     rows[i] = "bad" /\ \A j \in 1..(i - 1) : rows[j] = "ok"
         IN  [output EXCEPT !.activities_list = Some(SubSeq(rows, 1, k - 1)),
                            !.error_message = ERR_FORMAT]
    ELSE IF trace_fails
         THEN [output EXCEPT !.activities_list = Some(rows),
                             !.error_message = ERR_FORMAT]
         ELSE [output EXCEPT !.activities_list = Some(rows)]

\* The inner try block: every row is converted, then the list is assigned
\* to the result, then (debug_state and tool_context) the list is written to
\* the trace; any exception in the block sets error_message.
MapRows(output, rows, trace_fails) ==
    IF \E i \in 1..Len(rows) : rows[i] = "bad"
    THEN [output EXCEPT !.error_message = ERR_FORMAT]
    ELSE IF trace_fails
         THEN [output EXCEPT !.activities_list = Some(rows),
                             !.error_message = ERR_FORMAT]
         ELSE [output EXCEPT !.activities_list = Some(rows)]

\* The except clauses of the outer try for an exception of class `kind`.
\* The first clause evaluates (sqlite3.Error, psycopg2.Error); with the
\* driver missing psycopg2 is None and the evaluation raises AttributeError,
\* which leaves the function after the finally block.
HandleException(output, kind, driver) ==
    IF ~driver
    THEN [status |-> "raised", exc |-> "AttributeError", output |-> output]
    ELSE [status |-> "returned", exc |-> "",
          output |-> [output EXCEPT !.error_message =
                         CASE kind = "DatabaseError"   -> ERR_DATABASE
                           [] kind = "ConnectionError" -> ERR_CONNECTION
                           [] OTHER                    -> ERR_UNEXPECTED]]

\* The call ended: h is the status, exception and result object; the rest
\* records what the call did (connection acquisitions, cursors opened and
\* still open, statements executed, rows fetched, rows converted before the
\* first one that does not convert) and why it failed.
Outcome(g, h, failure, acquisitions, a, cursors, open_cursors, executes, rows) ==
    [g |-> g, status |-> h.status, exc |-> h.exc, output |-> h.output,
     failure |-> failure, acquisitions |-> acquisitions, ret |-> a.ret,
     connects |-> a.connects, ext_loads |-> a.ext_loads,
     cursors |-> cursors, open_cursors |-> open_cursors, executes |-> executes,
     fetched |-> Len(rows),
     converted |-> Cardinality({ i \in 1..Len(rows) :
                                   \A j \in 1..i : rows[j] = "ok" })]

\* No acquisition was made.
NoAcquisition(g) == [g |-> g, ret |-> NoConn, connects |-> 0, ext_loads |-> 0]

Returned(output) == [status |-> "returned", exc |-> "", output |-> output]

\* A mutation of the body of the outer try: a failure after the connection
\* was obtained closes the connection and clears the cached handle.
RunQueryClosingConnection(limit, g, cfg, env) ==
    LET a == get_db_connection(g, env, cfg)
        closed == IF cfg.db_type = "postgres"
                  THEN [a.g EXCEPT !.postgres_conn = NoConn]
                  ELSE [a.g EXCEPT !.sqlite_conn = NoConn]
    IN  IF a.ret = NoConn
        THEN Outcome(a.g, HandleException(NewOutput, "ConnectionError", cfg.psycopg2),
                     "connection", 1, a, 0, 0, 0, <<>>)
        ELSE IF ~env.cursor_ok
        THEN Outcome(closed, HandleException(NewOutput, "DatabaseError", cfg.psycopg2),
                     "execution", 1, a, 0, 0, 0, <<>>)
        ELSE IF env.exec = "db_error"
        THEN Outcome(closed, HandleException(NewOutput, "DatabaseError", cfg.psycopg2),
                     "execution", 1, a, 1, 0, 1, <<>>)
        ELSE IF env.exec = "other_error"
        THEN Outcome(closed, HandleException(NewOutput, "Exception", cfg.psycopg2),
                     "execution", 1, a, 1, 0, 1, <<>>)
        ELSE LET br == BackendResult(cfg.db_type, limit, env.matching)
             IN  IF br.error
                 THEN Outcome(closed,
                              HandleException(NewOutput, "DatabaseError", cfg.psycopg2),
                              "execution", 1, a, 1, 0, 1, <<>>)
                 ELSE Outcome(a.g,
                              Returned(MapRows(NewOutput, br.rows,
                                               cfg.debug_state /\ ~env.trace_ok)),
                              IF \E i \in 1..Len(br.rows) : br.rows[i] = "bad"
                              THEN "mapping"
                              ELSE IF cfg.debug_state /\ ~env.trace_ok THEN "trace"
                              ELSE "none",
                              1, a, 1, 0, 1, br.rows)

\* The body of the outer try, for a statement whose LIMIT in force is
\* `limit`, under the environment env.
RunQuery(limit, g, cfg, env) ==
    LET a == get_db_connection(g, env, cfg)
    IN  IF a.ret = NoConn
        THEN Outcome(a.g, HandleException(NewOutput, "ConnectionError", cfg.psycopg2),
                     "connection", 1, a, 0, 0, 0, <<>>)
        ELSE IF ~env.cursor_ok
        THEN Outcome(a.g, HandleException(NewOutput, "DatabaseError", cfg.psycopg2),
                     "execution", 1, a, 0, 0, 0, <<>>)
        ELSE IF env.exec = "db_error"
        THEN Outcome(a.g, HandleException(NewOutput, "DatabaseError", cfg.psycopg2),
                     "execution", 1, a, 1, 0, 1, <<>>)
        ELSE IF env.exec = "other_error"
        THEN Outcome(a.g, HandleException(NewOutput, "Exception", cfg.psycopg2),
                     "execution", 1, a, 1, 0, 1, <<>>)
        ELSE LET br == BackendResult(cfg.db_type, limit, env.matching)
             IN  IF br.error
                 THEN Outcome(a.g,
                              HandleException(NewOutput, "DatabaseError", cfg.psycopg2),
                              "execution", 1, a, 1, 0, 1, <<>>)
                 ELSE Outcome(a.g,
                              Returned(MapRows(NewOutput, br.rows,
                                               cfg.debug_state /\ ~env.trace_ok)),
                              IF \E i \in 1..Len(br.rows) : br.rows[i] = "bad"
                              THEN "mapping"
                              ELSE IF cfg.debug_state /\ ~env.trace_ok THEN "trace"
                              ELSE "none",
                              1, a, 1, 0, 1, br.rows)

\* The environments that differ for a call in state g: the acquisition
\* choices matter only when a connection has to be established.
NeedsConnect(g, cfg) ==
    IF cfg.db_type = "postgres"
    THEN cfg.psycopg2 /\ (g.postgres_conn = NoConn \/ g.pg_dead)
    ELSE g.sqlite_conn = NoConn

ExecEnvs(g, cfg) ==
    UNION { QueryEnvs(e0, cfg.debug_state) :
              e0 \in (IF NeedsConnect(g, cfg) THEN AcquireEnvs ELSE {BaseEnv}) }

\* get_data_from_db_tool(sql_string, params, tool_context): the set of ways
\* the call can end in state g. The gate returns before the try block.
get_data_from_db_tool(sql_string, g, cfg) ==
    IF DisallowedStatement(sql_string)
    THEN { Outcome(g, Returned([NewOutput EXCEPT !.error_message = ERR_DISALLOWED]),
                   "gate", 0, NoAcquisition(g), 0, 0, 0, <<>>) }
    ELSE LET limit == StatementLimit(sql_string)
         IN  { RunQuery(limit, g, cfg, env) : env \in ExecEnvs(g, cfg) }

(***************************************************************************)
(* State.                                                                  *)
(***************************************************************************)
VARIABLES
    db_type,          \* configs.db_type
    psycopg2,         \* whether the psycopg2 import succeeded
    max_rows,         \* configs.max_rows
    debug_state,      \* configs.debug_state
    _sqlite_conn,     \* module-level handle, NoConn for None
    _postgres_conn,   \* module-level handle, NoConn for None
    created,          \* number of connections established so far
    pg_dead,          \* the cached Postgres connection no longer answers
    pg_table_exists,  \* public.activities exists on the Postgres server
    bootstrap_runs,   \* per backend: completed runs of the bootstrap script
    sqlite_vec,       \* sqlite-vec is loaded in the cached SQLite connection
    pc,               \* position of the running call
    op,               \* the entry point that is running
    vector_query,     \* argument of get_activities_tool
    embedding,        \* local of get_activities_tool
    where_clause,     \* local of get_activities_tool
    sql_query,        \* local of get_activities_tool
    req,              \* how the two enrichment steps of the request ended, and
                      \* how many times each service was called
    call,             \* record of the last get_data_from_db_tool call
    acq,              \* record of the last connection acquisition
    thread,           \* per thread inside setup_sqlite_client: its position,
                      \* its temp_cursor's connection and what it returned
    sqlite_conns,     \* the SQLite connections the threads made, by handle:
                      \* creating thread, script finished, closed
    guard             \* the before_model_callback: the request it was given,
                      \* what the services did, the request it left

vars == <<db_type, psycopg2, max_rows, debug_state, _sqlite_conn, _postgres_conn,
          created, pg_dead, pg_table_exists, bootstrap_runs, sqlite_vec, pc, op,
          vector_query, embedding, where_clause, sql_query, req, call, acq, thread,
          sqlite_conns, guard>>

config_vars == <<db_type, psycopg2, max_rows, debug_state>>
thread_vars == <<thread, sqlite_conns>>
guard_vars == <<guard>>
global_vars == <<_sqlite_conn, _postgres_conn, created, pg_dead, pg_table_exists,
                 bootstrap_runs, sqlite_vec>>
local_vars  == <<vector_query, embedding, where_clause, sql_query, req>>

Cfg ==
    [db_type |-> db_type, psycopg2 |-> psycopg2, max_rows |-> max_rows,
     debug_state |-> debug_state]

Globals ==
    [sqlite_conn |-> _sqlite_conn, postgres_conn |-> _postgres_conn,
     created |-> created, pg_dead |-> pg_dead, pg_table_exists |-> pg_table_exists,
     bootstrap_runs |-> bootstrap_runs, sqlite_vec |-> sqlite_vec]

SetGlobals(g) ==
    /\ _sqlite_conn' = g.sqlite_conn
    /\ _postgres_conn' = g.postgres_conn
    /\ created' = g.created
    /\ pg_dead' = g.pg_dead
    /\ pg_table_exists' = g.pg_table_exists
    /\ bootstrap_runs' = g.bootstrap_runs
    /\ sqlite_vec' = g.sqlite_vec

NoGlobals ==
    [sqlite_conn |-> NoConn, postgres_conn |-> NoConn, created |-> 0, pg_dead |-> FALSE,
     pg_table_exists |-> FALSE, bootstrap_runs |-> [sqlite |-> 0, postgres |-> 0],
     sqlite_vec |-> FALSE]

NoCall ==
    [active |-> FALSE, denied |-> FALSE, before |-> NoGlobals, after |-> NoGlobals,
     status |-> "", exc |-> "", output |-> NewOutput, failure |-> "none",
     acquisitions |-> 0, cursors |-> 0, open_cursors |-> 0, executes |-> 0,
     fetched |-> 0, converted |-> 0, connects |-> 0]

NoAcq == [active |-> FALSE, backend |-> "", cached_before |-> NoConn,
          probe_ok |-> FALSE, ret |-> NoConn, connects |-> 0, ext_loads |-> 0]

Threads == 1..NumThreads

\* A thread that has not called setup_sqlite_client.
IdleThread == [pc |-> "idle", cur |-> NoConn, ret |-> NoConn]

(***************************************************************************)
(* The input guardrail (model_armor.py): check_model_input, registered as  *)
(* before_model_callback of the agent, and deidentify_text_with_dlp.       *)
(* A text is a sequence of words.  A part is a text part or a part         *)
(* without text (a function call or response); a content item is its       *)
(* sequence of parts, and a request is its sequence of content items.      *)
(***************************************************************************)
TextPart(text) == [kind |-> "text", text |-> text]
OtherPart == [kind |-> "function_response", text |-> <<>>]

\* "System: Input blocked due to policy."
REJECTION == <<"System: Input blocked due to policy.">>

\* What the DLP service returns for a text: every finding (an e-mail
\* address, a user id of the custom pattern) replaced by the name of its
\* info type.
DlpReplace(text) ==
    [i \in 1..Len(text) |->
        IF text[i] = "a@b.c" THEN "[EMAIL_ADDRESS]"
        ELSE IF text[i] = "user_1" THEN "[USER_ID_PATTERN]"
        ELSE text[i]]

\* deidentify_text_with_dlp(text): dlp says how the service behaves in this
\* call: "unavailable" (get_dlp_client() is None), "ok", "invalid_argument"
\* or "error" (deidentify_content raises).
DlpOutcomes == {"unavailable", "ok", "invalid_argument", "error"}

deidentify_text_with_dlp(text, dlp) ==
    IF text = <<>> THEN text
    ELSE IF dlp = "unavailable" THEN text
    ELSE IF dlp = "ok" THEN DlpReplace(text)
    ELSE text

\* sanitize_user_prompt: no match, a match, or an exception.
PolicyOutcomes == {"no_match", "match", "raises"}

\* The parts with getattr(p, 'text', None) true, redacted; the others as
\* they are.
RedactedParts(parts, dlp) ==
    [i \in 1..Len(parts) |->
        IF parts[i].kind = "text" /\ parts[i].text # <<>>
        THEN TextPart(deidentify_text_with_dlp(parts[i].text, dlp))
        ELSE parts[i]]

HasText(p) == p.kind = "text" /\ p.text # <<>>

\* A mutation of check_model_input: the redacted parts are assigned to the
\* request only after the policy check has returned.
check_model_input_redacting_after_policy(contents, armor, dlp, policy) ==
    IF contents = <<>> THEN [contents |-> contents, raised |-> FALSE]
    ELSE LET n == Len(contents)
             parts == contents[n]
         IN  IF parts = <<>> THEN [contents |-> contents, raised |-> FALSE]
             ELSE IF ~armor \/ SelectSeq(parts, HasText) = <<>>
             THEN [contents |-> [contents EXCEPT ![n] = RedactedParts(parts, dlp)],
                   raised |-> FALSE]
             ELSE IF policy = "raises"
             THEN [contents |-> contents, raised |-> FALSE]
             ELSE IF policy = "match"
             THEN [contents |-> [contents EXCEPT ![n] = <<TextPart(REJECTION)>>],
                   raised |-> FALSE]
             ELSE [contents |-> [contents EXCEPT ![n] = RedactedParts(parts, dlp)],
                   raised |-> FALSE]

\* check_model_input(llm_request): the request's contents after the call and
\* whether an exception left the function.  armor is whether
\* get_armor_client() gave a client.
check_model_input(contents, armor, dlp, policy) ==
    IF contents = <<>> THEN [contents |-> contents, raised |-> FALSE]
    ELSE LET n == Len(contents)
             parts == contents[n]
         IN  \* no parts: return
             IF parts = <<>> THEN [contents |-> contents, raised |-> FALSE]
             ELSE LET redacted == [contents EXCEPT ![n] = RedactedParts(parts, dlp)]
                  IN  \* last_item.parts = redacted_parts, then the policy check
                      IF ~armor \/ SelectSeq(parts, HasText) = <<>>
                      THEN [contents |-> redacted, raised |-> FALSE]
                      ELSE IF policy = "raises"
                      \* except Exception: logged
                      THEN [contents |-> redacted, raised |-> FALSE]
                      ELSE IF policy = "match"
                      THEN [contents |-> [redacted EXCEPT ![n] = <<TextPart(REJECTION)>>],
                            raised |-> FALSE]
                      ELSE [contents |-> redacted, raised |-> FALSE]

\* The requests the agent hands to the callback: no content, or a last
\* content item of up to MaxParts parts, with or without an earlier item.
PartKinds ==
    { TextPart(<<"hi">>), TextPart(<<"mail", "a@b.c">>), TextPart(<<"user_1">>),
      TextPart(<<>>), OtherPart }

PartLists == UNION { [1..n -> PartKinds] : n \in 0..MaxParts }

Requests ==
    {<<>>} \cup { <<parts>> : parts \in PartLists }
           \cup { << <<TextPart(<<"mail", "a@b.c">>)>>, parts >> : parts \in PartLists }

NoGuard ==
    [pc |-> "idle", request |-> <<>>, contents |-> <<>>, armor |-> FALSE, dlp |-> "ok",
     policy |-> "no_match", raised |-> FALSE]

NoReq == [embed |-> "", where |-> "", embed_calls |-> 0, where_calls |-> 0]

Init ==
    /\ db_type \in DbTypes
    /\ psycopg2 \in BOOLEAN
    /\ max_rows \in MaxRowsValues
    /\ debug_state \in BOOLEAN
    /\ _sqlite_conn = NoConn
    /\ _postgres_conn = NoConn
    /\ created = 0
    /\ pg_dead = FALSE
    /\ pg_table_exists \in (IF db_type = "postgres" THEN BOOLEAN ELSE {FALSE})
    /\ bootstrap_runs = [sqlite |-> 0, postgres |-> 0]
    /\ sqlite_vec = FALSE
    /\ pc = "idle"
    /\ op = "none"
    /\ vector_query = <<>>
    /\ embedding = NoneSeq
    /\ where_clause = NoneSeq
    /\ sql_query = <<>>
    /\ req = NoReq
    /\ call = NoCall
    /\ acq = NoAcq
    /\ thread = [t \in Threads |-> IdleThread]
    /\ sqlite_conns = <<>>
    /\ guard = NoGuard

(***************************************************************************)
(* Bookkeeping of a call, for the properties below.                        *)
(***************************************************************************)
\* The text has a whole word (a maximal run of word characters) that is one
\* of the denylisted words, letter case ignored.
MaxKeywordLen == 8

ContainsDenylistedWord(s) ==
    \E a \in 1..Len(s) :
        /\ IsWordChar(s[a])
        /\ a = 1 \/ ~IsWordChar(s[a - 1])
        /\ \E b \in a..Min(Len(s), a + MaxKeywordLen - 1) :
              /\ b = Len(s) \/ ~IsWordChar(s[b + 1])
              /\ \A k \in a..b : IsWordChar(s[k])
              /\ [k \in 1..(b - a + 1) |-> ToLower(s[a + k - 1])] \in DENYLIST

Cached(g, backend) == IF backend = "postgres" THEN g.postgres_conn ELSE g.sqlite_conn

\* The record of an acquisition of `backend` made in state g that ended as
\* r: the handle cached before the call, whether the liveness probe of the
\* call succeeds on it (Postgres), the handle returned, and the connection
\* attempts and extension loads made.
AcqRecord(g, backend, r) ==
    [active |-> TRUE, backend |-> backend, cached_before |-> Cached(g, backend),
     probe_ok |-> IF backend = "postgres" THEN ~g.pg_dead ELSE TRUE,
     ret |-> r.ret, connects |-> r.connects, ext_loads |-> r.ext_loads]

RecordAcquisition(g, backend, r) == acq' = AcqRecord(g, backend, r)

\* The record of a get_data_from_db_tool call that ended as r.
CallRecord(g, denied, r) ==
    [active |-> TRUE, denied |-> denied,
     before |-> g, after |-> r.g,
     status |-> r.status, exc |-> r.exc, output |-> r.output, failure |-> r.failure,
     acquisitions |-> r.acquisitions, cursors |-> r.cursors,
     open_cursors |-> r.open_cursors, executes |-> r.executes, fetched |-> r.fetched,
     converted |-> r.converted, connects |-> r.connects]

RecordCall(g, denied, r) ==
    /\ call' = CallRecord(g, denied, r)
    /\ IF r.acquisitions > 0
       THEN RecordAcquisition(g, db_type, r)
       ELSE UNCHANGED acq

(***************************************************************************)
(* Entry points.                                                           *)
(***************************************************************************)
\* before_agent_callback of the root agent (src/agent.py).
SetupDbResources ==
    /\ pc = "idle"
    /\ \E env \in (IF _sqlite_conn = NoConn THEN AcquireEnvs ELSE {BaseEnv}) :
          LET r == setup_db_resources(Globals, env, Cfg)
          IN  /\ r.g.created <= MaxConns
              /\ SetGlobals(r.g)
              /\ RecordAcquisition(Globals, "sqlite", r)
    /\ pc' = "returned"
    /\ op' = "setup_db_resources"
    /\ UNCHANGED <<config_vars, thread_vars, guard_vars, local_vars, call>>

\* get_db_connection() called on its own (the module's main block).
GetDbConnection ==
    /\ pc = "idle"
    /\ \E env \in (IF NeedsConnect(Globals, Cfg) THEN AcquireEnvs ELSE {BaseEnv}) :
          LET r == get_db_connection(Globals, env, Cfg)
          IN  /\ r.g.created <= MaxConns
              /\ SetGlobals(r.g)
              /\ RecordAcquisition(Globals, db_type, r)
    /\ pc' = "returned"
    /\ op' = "get_db_connection"
    /\ UNCHANGED <<config_vars, thread_vars, guard_vars, local_vars, call>>

\* get_data_from_db_tool called with a statement of the caller's.
GetDataFromDbTool ==
    /\ pc = "idle"
    /\ \E sql_string \in DirectStatements :
          LET denied == ContainsDenylistedWord(sql_string)
          IN  \E r \in get_data_from_db_tool(sql_string, Globals, Cfg) :
                 /\ r.g.created <= MaxConns
                 /\ SetGlobals(r.g)
                 /\ RecordCall(Globals, denied, r)
                 /\ pc' = IF r.status = "raised" THEN "raised" ELSE "returned"
    /\ op' = "get_data_from_db_tool"
    /\ UNCHANGED <<config_vars, thread_vars, guard_vars, local_vars>>

\* get_activities_tool up to its first await: embedding = None, and the
\* embedding step is entered only for a non-empty vector_query.
VectorQueries == { <<>>, <<"m","u","s","e","u","m","s">> }

\* A mutation of the test of line 265: the embedding step is entered for
\* every vector_query.
EmbeddingRequestedAlways(vq) == TRUE

\* if vector_query != "":
EmbeddingRequested(vq) == vq # <<>>

GetActivitiesTool ==
    /\ pc = "idle"
    /\ \E vq \in VectorQueries :
          /\ vector_query' = vq
          /\ pc' = IF EmbeddingRequested(vq) THEN "embed" ELSE "where"
          /\ req' = [NoReq EXCEPT !.embed = IF vq # <<>> THEN "" ELSE "skipped"]
    /\ embedding' = NoneSeq
    /\ where_clause' = NoneSeq
    /\ sql_query' = <<>>
    /\ op' = "get_activities_tool"
    /\ UNCHANGED <<config_vars, thread_vars, guard_vars, global_vars, call, acq>>

\* embedding = await get_embedding_tool(vector_query, tool_context)
EmbeddingStep ==
    /\ pc = "embed"
    /\ \E response \in EmbedResponses :
          LET r == get_embedding_tool(response)
          IN  /\ embedding' = r.value
              /\ req' = [req EXCEPT !.embed = IF response.raises = "" THEN "ok"
                                              ELSE "failed",
                                    !.embed_calls = @ + 1]
              /\ pc' = IF r.status = "raised" THEN "raised" ELSE "where"
    /\ UNCHANGED <<config_vars, thread_vars, guard_vars, global_vars, op, vector_query, where_clause, sql_query,
                   call, acq>>

\* A mutation of the predicate step: it does not wait for the embedding and
\* runs while the embedding step is still pending.
WhereClauseStepNotAwaitingEmbedding ==
    /\ pc \in {"embed", "where"}
    /\ \E response \in LlmResponses :
          LET r == get_sql_where_clause_tool(response)
          IN  /\ where_clause' = r.value
              /\ req' = [req EXCEPT !.where =
                                       IF response.raises \/ response.json # "object"
                                       THEN "failed" ELSE "ok",
                                    !.where_calls = @ + 1]
              /\ pc' = "exec"
              /\ sql_query' = BuildSqlQuery(db_type, embedding, r.value, max_rows)
    /\ UNCHANGED <<config_vars, thread_vars, guard_vars, global_vars, op, vector_query, embedding, call, acq>>

\* where_clause = await get_sql_where_clause_tool(keyword_queries, tool_context)
WhereClauseStep ==
    /\ pc = "where"
    /\ \E response \in LlmResponses :
          LET r == get_sql_where_clause_tool(response)
          IN  /\ where_clause' = r.value
              /\ req' = [req EXCEPT !.where =
                                       IF response.raises \/ response.json # "object"
                                       THEN "failed" ELSE "ok",
                                    !.where_calls = @ + 1]
              /\ IF r.status = "raised"
                 THEN pc' = "raised" /\ sql_query' = sql_query
                 \* no await before the next one: the statement is
                 \* concatenated in the same step
                 ELSE /\ pc' = "exec"
                      /\ sql_query' = BuildSqlQuery(db_type, embedding, r.value, max_rows)
    /\ UNCHANGED <<config_vars, thread_vars, guard_vars, global_vars, op, vector_query, embedding, call, acq>>

\* results = await get_data_from_db_tool(sql_query, params, tool_context);
\* the result object is never false, so str(results) is returned and the
\* locals are gone.
ExecuteStep ==
    /\ pc = "exec"
    /\ LET denied == ContainsDenylistedWord(sql_query)
       IN  \E r \in get_data_from_db_tool(sql_query, Globals, Cfg) :
              /\ r.g.created <= MaxConns
              /\ SetGlobals(r.g)
              /\ RecordCall(Globals, denied, r)
              /\ pc' = IF r.status = "raised" THEN "raised" ELSE "returned"
    /\ vector_query' = <<>>
    /\ embedding' = NoneSeq
    /\ where_clause' = NoneSeq
    /\ sql_query' = <<>>
    /\ UNCHANGED <<config_vars, thread_vars, guard_vars, op, req>>

\* The caller has the result (or the exception); the locals are gone.
Return ==
    /\ pc \in {"returned", "raised"}
    /\ pc' = "idle"
    /\ op' = "none"
    /\ vector_query' = <<>>
    /\ embedding' = NoneSeq
    /\ where_clause' = NoneSeq
    /\ sql_query' = <<>>
    /\ req' = NoReq
    /\ call' = NoCall
    /\ acq' = NoAcq
    /\ UNCHANGED <<config_vars, thread_vars, guard_vars, global_vars>>

\* The Postgres server, or the network, drops the cached connection.
PostgresConnectionLost ==
    /\ pc = "idle"
    /\ _postgres_conn # NoConn
    /\ ~pg_dead
    /\ pg_dead' = TRUE
    /\ UNCHANGED <<config_vars, thread_vars, guard_vars, _sqlite_conn, _postgres_conn, created, pg_table_exists,
                   bootstrap_runs, sqlite_vec, pc, op, local_vars, call, acq>>

Next ==
    \/ SetupDbResources
    \/ GetDbConnection
    \/ GetDataFromDbTool
    \/ GetActivitiesTool
    \/ EmbeddingStep
    \/ WhereClauseStep
    \/ ExecuteStep
    \/ Return
    \/ PostgresConnectionLost

Spec == Init /\ [][Next]_vars

(***************************************************************************)
(* setup_sqlite_client called from several threads of one process, line by *)
(* line.  Nothing in the function takes a lock; every read and write of    *)
(* _sqlite_conn is a step of its own.  A sqlite3 connection is made with   *)
(* check_same_thread at its default, so a method called on it from a       *)
(* thread that did not create it raises ProgrammingError.                  *)
(***************************************************************************)
InitThreads ==
    /\ db_type = "sqlite"
    /\ psycopg2 = TRUE
    /\ max_rows = 1
    /\ debug_state = FALSE
    /\ _sqlite_conn = NoConn
    /\ _postgres_conn = NoConn
    /\ created = 0
    /\ pg_dead = FALSE
    /\ pg_table_exists = FALSE
    /\ bootstrap_runs = [sqlite |-> 0, postgres |-> 0]
    /\ sqlite_vec = FALSE
    /\ pc = "idle"
    /\ op = "none"
    /\ vector_query = <<>>
    /\ embedding = NoneSeq
    /\ where_clause = NoneSeq
    /\ sql_query = <<>>
    /\ req = NoReq
    /\ call = NoCall
    /\ acq = NoAcq
    /\ thread = [t \in Threads |-> IdleThread]
    /\ sqlite_conns = <<>>
    /\ guard = NoGuard

\* What the threads leave alone.
sequential_vars ==
    <<config_vars, _postgres_conn, pg_dead, pg_table_exists, pc, op, local_vars, call, acq,
      guard_vars>>

\* The connection h can be used by thread t: t made it and it is open.
UsableBy(h, t) ==
    /\ h # NoConn
    /\ sqlite_conns[h].owner = t
    /\ ~sqlite_conns[h].closed

\* A thread enters setup_sqlite_client.
ThreadCall(t) ==
    /\ thread[t].pc = "idle"
    /\ thread' = [thread EXCEPT ![t].pc = "test"]
    /\ UNCHANGED <<sequential_vars, _sqlite_conn, created, bootstrap_runs, sqlite_vec,
                   sqlite_conns>>

\* line 84: if _sqlite_conn is None
ThreadTestCached(t) ==
    /\ thread[t].pc = "test"
    /\ thread' = [thread EXCEPT ![t].pc = IF _sqlite_conn = NoConn THEN "connect"
                                          ELSE "return"]
    /\ UNCHANGED <<sequential_vars, _sqlite_conn, created, bootstrap_runs, sqlite_vec,
                   sqlite_conns>>

\* lines 86-93: the script file is read and
\* _sqlite_conn = sqlite3.connect(":memory:"); a missing file or a failing
\* connect raises.
ThreadConnect(t) ==
    /\ thread[t].pc = "connect"
    /\ \E ok \in BOOLEAN :
          IF ok
          THEN /\ sqlite_conns' = Append(sqlite_conns,
                                         [owner |-> t, hydrated |-> FALSE, closed |-> FALSE])
               /\ _sqlite_conn' = Len(sqlite_conns) + 1
               /\ created' = created + 1
               /\ thread' = [thread EXCEPT ![t].pc = "cursor"]
          ELSE /\ thread' = [thread EXCEPT ![t].pc = "handler"]
               /\ UNCHANGED <<_sqlite_conn, created, sqlite_conns>>
    /\ UNCHANGED <<sequential_vars, bootstrap_runs, sqlite_vec>>

\* line 94: temp_cursor = _sqlite_conn.cursor(), on whatever the module
\* variable holds now.
ThreadCursor(t) ==
    /\ thread[t].pc = "cursor"
    /\ thread' = IF UsableBy(_sqlite_conn, t)
                 THEN [thread EXCEPT ![t].pc = "script", ![t].cur = _sqlite_conn]
                 ELSE [thread EXCEPT ![t].pc = "handler"]
    /\ UNCHANGED <<sequential_vars, _sqlite_conn, created, bootstrap_runs, sqlite_vec,
                   sqlite_conns>>

\* line 95: temp_cursor.executescript(sql_script)
ThreadExecuteScript(t) ==
    /\ thread[t].pc = "script"
    /\ \E ok \in BOOLEAN :
          IF ok /\ UsableBy(thread[t].cur, t)
          THEN /\ sqlite_conns' = [sqlite_conns EXCEPT ![thread[t].cur].hydrated = TRUE]
               /\ bootstrap_runs' = [bootstrap_runs EXCEPT !.sqlite = @ + 1]
               /\ thread' = [thread EXCEPT ![t].pc = "extension"]
          ELSE /\ thread' = [thread EXCEPT ![t].pc = "handler"]
               /\ UNCHANGED <<bootstrap_runs, sqlite_conns>>
    /\ UNCHANGED <<sequential_vars, _sqlite_conn, created, sqlite_vec>>

\* lines 98-105: the extension is loaded into _sqlite_conn, every exception
\* of which is only logged, and temp_cursor is closed.
ThreadLoadExtension(t) ==
    /\ thread[t].pc = "extension"
    /\ \E ok \in BOOLEAN :
          sqlite_vec' = IF UsableBy(_sqlite_conn, t) THEN ok ELSE sqlite_vec
    /\ thread' = [thread EXCEPT ![t].pc = "return"]
    /\ UNCHANGED <<sequential_vars, _sqlite_conn, created, bootstrap_runs, sqlite_conns>>

\* lines 106 and 114: return _sqlite_conn
ThreadReturn(t) ==
    /\ thread[t].pc = "return"
    /\ thread' = [thread EXCEPT ![t].pc = "returned", ![t].ret = _sqlite_conn]
    /\ UNCHANGED <<sequential_vars, _sqlite_conn, created, bootstrap_runs, sqlite_vec,
                   sqlite_conns>>

\* lines 107-112: the handler closes what _sqlite_conn holds, resets it and
\* returns None; close() on a connection of another thread raises, and that
\* exception leaves the function.
ThreadHandler(t) ==
    /\ thread[t].pc = "handler"
    /\ IF _sqlite_conn = NoConn
       THEN /\ thread' = [thread EXCEPT ![t].pc = "returned", ![t].ret = NoConn]
            /\ UNCHANGED <<_sqlite_conn, sqlite_conns>>
       ELSE IF UsableBy(_sqlite_conn, t)
       THEN /\ sqlite_conns' = [sqlite_conns EXCEPT ![_sqlite_conn].closed = TRUE]
            /\ _sqlite_conn' = NoConn
            /\ thread' = [thread EXCEPT ![t].pc = "returned", ![t].ret = NoConn]
       ELSE /\ thread' = [thread EXCEPT ![t].pc = "raised"]
            /\ UNCHANGED <<_sqlite_conn, sqlite_conns>>
    /\ UNCHANGED <<sequential_vars, created, bootstrap_runs, sqlite_vec>>

\* The caller uses the connection it was given (conn.cursor(), cur.execute
\* in get_data_from_db_tool, lines 418-420).
ThreadUse(t) ==
    /\ thread[t].pc = "returned"
    /\ thread[t].ret # NoConn
    /\ thread' = [thread EXCEPT ![t].pc =
                     IF UsableBy(thread[t].ret, t) /\ sqlite_conns[thread[t].ret].hydrated
                     THEN "used" ELSE "use_failed"]
    /\ UNCHANGED <<sequential_vars, _sqlite_conn, created, bootstrap_runs, sqlite_vec,
                   sqlite_conns>>

NextThreads ==
    \E t \in Threads :
        \/ ThreadCall(t)
        \/ ThreadTestCached(t)
        \/ ThreadConnect(t)
        \/ ThreadCursor(t)
        \/ ThreadExecuteScript(t)
        \/ ThreadLoadExtension(t)
        \/ ThreadReturn(t)
        \/ ThreadHandler(t)
        \/ ThreadUse(t)

SpecThreads == InitThreads /\ [][NextThreads]_vars

(***************************************************************************)
(* The input guardrail on its own: the agent calls check_model_input       *)
(* before every model call.                                                *)
(***************************************************************************)
InitGuard == InitThreads

\* before_model_callback=check_model_input (src/agent.py)
CheckModelInput ==
    /\ guard.pc = "idle"
    /\ \E request \in Requests, armor \in BOOLEAN, dlp \in DlpOutcomes,
          policy \in PolicyOutcomes :
          LET r == check_model_input(request, armor, dlp, policy)
          IN  guard' = [pc |-> IF r.raised THEN "raised" ELSE "returned",
                        request |-> request, contents |-> r.contents, armor |-> armor,
                        dlp |-> dlp, policy |-> policy, raised |-> r.raised]
    /\ UNCHANGED <<config_vars, thread_vars, global_vars, pc, op, local_vars, call, acq>>

\* The model is called with the request the callback left.
ModelCall ==
    /\ guard.pc \in {"returned", "raised"}
    /\ guard' = NoGuard
    /\ UNCHANGED <<config_vars, thread_vars, global_vars, pc, op, local_vars, call, acq>>

NextGuard ==
    \/ CheckModelInput
    \/ ModelCall

SpecGuard == InitGuard /\ [][NextGuard]_vars

(***************************************************************************)
(* Properties.                                                             *)
(***************************************************************************)
\* The statement has the text " WHERE " in it.
HasWhereClause(s) ==
    \E i \in 1..(Len(s) - Len(WHERE_KW) + 1) :
        SubSeq(s, i, i + Len(WHERE_KW) - 1) = WHERE_KW

\* The text s has the text t in it.
ContainsText(s, t) ==
    \E i \in 1..(Len(s) - Len(t) + 1) : SubSeq(s, i, i + Len(t) - 1) = t

\* The statement has a vector-distance term of one of the two dialects.
HasVectorDistance(s) ==
    \/ ContainsText(s, <<"<","=",">">>)
    \/ ContainsText(s, <<"v","e","c","_","d","i","s","t","a","n","c","e","_","c","o","s","i",
                         "n","e">>)

\* C1: a get_data_from_db_tool call whose statement has one of the words
\* update, delete, drop, insert, create, alter, truncate, merge as a whole
\* word, in any letter case, returns the error result of the gate before any
\* backend call: no connection acquisition, no cursor, no statement executed,
\* and the cached connection state as it was before the call.
C1_GateRejectsBeforeBackend ==
    (call.active /\ call.denied) =>
        /\ call.status = "returned"
        /\ call.failure = "gate"
        /\ call.output.error_message = ERR_DISALLOWED
        /\ call.output.activities_list.is_none
        /\ call.acquisitions = 0
        /\ call.cursors = 0
        /\ call.executes = 0
        /\ call.after = call.before
        /\ Globals = call.before

\* A rejected call made while a connection is cached.
C1_Witness ==
    /\ call.active
    /\ call.denied
    /\ call.failure = "gate"
    /\ Cached(call.before, db_type) # NoConn

\* C2: get_data_from_db_tool never lets an exception escape: whatever the
\* input, the backend configuration (the Postgres driver installed or not)
\* and the failure, the call ends by returning a result object.
C2_NoExceptionEscapes ==
    call.active => (call.status = "returned" /\ call.exc = "")

\* C3: in a result object returned by get_data_from_db_tool the list and
\* the error are never both populated: activities_list is not None only if
\* error_message is the empty string, the failing write of the debug trace
\* after the assignment of activities_list included.
C3_ListAndErrorExclusive ==
    (call.active /\ call.status = "returned" /\ ~call.output.activities_list.is_none)
        => call.output.error_message = ""

\* C4: a failed query is told from a query without matches: on a terminal
\* failure (gate rejection, no connection, execution error, row-mapping error)
\* the caller has a result with a non-empty error_message and no list, and
\* on a successful execution with zero rows the empty list and no error.
C4_FailureDistinguishable ==
    call.active =>
        /\ call.failure \in {"gate", "connection", "execution", "mapping"} =>
              /\ call.status = "returned"
              /\ call.output.error_message # ""
              /\ call.output.activities_list.is_none
        /\ (call.failure = "none" /\ call.executes = 1 /\ call.fetched = 0) =>
              /\ call.status = "returned"
              /\ call.output.error_message = ""
              /\ call.output.activities_list = Some(<<>>)

\* C5: a failure of the embedding service never aborts a request: when the
\* embedding call fails, get_embedding_tool returns None instead of raising,
\* and get_activities_tool goes on to build the statement (constant score)
\* and to call the executor.
C5_EmbeddingFailureNeverAborts ==
    (op = "get_activities_tool" /\ req.embed = "failed") =>
        /\ pc \in {"where", "exec"} => embedding.is_none
        /\ pc = "exec" =>
              sql_query = BuildSqlQuery(db_type, NoneSeq, where_clause, max_rows)
        /\ pc \in {"returned", "raised"} => call.active

\* C6: a failure of predicate compilation never aborts a request: when the
\* model call fails or the response is not a JSON object,
\* get_sql_where_clause_tool returns None instead of raising, the statement
\* that get_activities_tool builds has no WHERE clause, and the statement is
\* handed to the executor, passes the gate and goes to the backend.
C6_PredicateFailureNeverAborts ==
    (op = "get_activities_tool" /\ req.where = "failed") =>
        /\ pc = "exec" => (where_clause.is_none /\ ~HasWhereClause(sql_query))
        /\ pc \in {"returned", "raised"} =>
              /\ call.active
              /\ ~call.denied
              /\ call.failure # "gate"
              /\ call.acquisitions = 1

\* A request whose predicate compilation failed and whose statement was
\* executed by the backend, returning rows.
C6_Witness ==
    /\ op = "get_activities_tool"
    /\ req.where = "failed"
    /\ pc = "returned"
    /\ call.active
    /\ call.executes = 1
    /\ call.fetched > 0
    /\ call.output.error_message = ""

\* C7: connection acquisition is idempotent: an acquisition made when a
\* connection of the backend is cached (and, for Postgres, answers the
\* liveness probe) returns that same connection; a successful acquisition
\* leaves the connection it returns cached; and the bootstrap script runs to
\* completion at most once per backend, however many acquisitions are made.
C7_AcquisitionIdempotent ==
    /\ (acq.active /\ acq.cached_before # NoConn /\ acq.probe_ok) =>
          acq.ret = acq.cached_before
    /\ (acq.active /\ acq.ret # NoConn) => Cached(Globals, acq.backend) = acq.ret
    /\ bootstrap_runs.sqlite <= 1
    /\ bootstrap_runs.postgres <= 1

\* A later acquisition of a backend that was bootstrapped by an earlier one
\* returns the cached connection.
C7_Witness ==
    /\ acq.active
    /\ acq.cached_before # NoConn
    /\ acq.ret = acq.cached_before
    /\ bootstrap_runs[acq.backend] = 1

\* C8: for every successful execution through get_activities_tool the number
\* of activity records returned is at most configs.max_rows.
C8_RowsBoundedByMaxRows ==
    (/\ op = "get_activities_tool"
     /\ call.active
     /\ call.status = "returned"
     /\ call.failure = "none") =>
        Len(call.output.activities_list.value) <= max_rows

\* C9: row mapping is all-or-nothing: when a fetched row does not convert,
\* get_data_from_db_tool returns an error_message and activities_list stays
\* None, however many earlier rows of the result converted.
C9_RowMappingAllOrNothing ==
    (call.active /\ call.fetched > call.converted) =>
        /\ call.status = "returned"
        /\ call.failure = "mapping"
        /\ call.output.error_message = ERR_FORMAT
        /\ call.output.activities_list.is_none

\* A result whose first row converted and a later row of which did not.
C9_Witness ==
    /\ call.active
    /\ call.converted >= 1
    /\ call.fetched > call.converted
    /\ call.failure = "mapping"

\* C10: the two backends are mutually exclusive within a process: under
\* db_type postgres no SQLite connection is ever created or cached, and
\* under db_type sqlite no Postgres connection.
C10_BackendsMutuallyExclusive ==
    /\ db_type = "postgres" => (_sqlite_conn = NoConn /\ bootstrap_runs.sqlite = 0)
    /\ db_type = "sqlite" => (_postgres_conn = NoConn /\ bootstrap_runs.postgres = 0)

\* C11: get_activities_tool calls get_embedding_tool if and only if
\* vector_query is not the empty string, and with an empty vector_query the
\* statement built has no vector-distance term: its score is the constant 0.
C11_EmbeddingOnlyForNonEmptyText ==
    (op = "get_activities_tool" /\ pc \in {"embed", "where", "exec"}) =>
        /\ pc = "embed" => vector_query # <<>>
        /\ pc \in {"where", "exec"} =>
              (vector_query # <<>> <=> req.embed \in {"ok", "failed"})
        /\ vector_query = <<>> => embedding.is_none
        /\ (pc = "exec" /\ vector_query = <<>>) =>
              /\ ~HasVectorDistance(sql_query)
              /\ ContainsText(sql_query, <<",", " ", "0", " ", "A", "S", " ", "s", "c", "o",
                                           "r", "e", " ">>)

\* A request with an empty vector_query whose statement is built, with a
\* predicate, without the embedding step having run.
C11_Witness ==
    /\ op = "get_activities_tool"
    /\ pc = "exec"
    /\ vector_query = <<>>
    /\ req.embed = "skipped"
    /\ HasWhereClause(sql_query)

\* The acquisition of `backend` made in the current state under env.
AcquisitionNow(backend, env) ==
    IF backend = "postgres"
    THEN setup_postgres_client(Globals, env, psycopg2)
    ELSE setup_sqlite_client(Globals, env)

\* C12: a failed acquisition is never permanent: after setup_sqlite_client
\* or setup_postgres_client returned None no connection is cached, the next
\* acquisition never hands out a handle made earlier, and (the driver being
\* there) with the cause of the failure gone it makes one connection
\* attempt, which succeeds and is cached.
C12_FailedAcquisitionNotPermanent ==
    (acq.active /\ acq.ret = NoConn) =>
        /\ Cached(Globals, acq.backend) = NoConn
        /\ \A env \in AcquireEnvs :
              AcquisitionNow(acq.backend, env).ret \in {NoConn, created + 1}
        /\ (acq.backend = "postgres" => psycopg2) =>
              LET r == AcquisitionNow(acq.backend, BaseEnv)
              IN  /\ r.connects = 1
                  /\ r.ret = created + 1
                  /\ Cached(r.g, acq.backend) = r.ret

\* An acquisition that failed after one connection attempt, with the driver
\* there, while an earlier connection had been made in the process.
C12_Witness ==
    /\ acq.active
    /\ acq.ret = NoConn
    /\ acq.connects = 1
    /\ created >= 1
    /\ created < MaxConns
    /\ (acq.backend = "postgres" => psycopg2)

\* C13: within one get_activities_tool request the steps are in a strict
\* order: the embedding step (if any) has ended before predicate compilation
\* starts, predicate compilation has ended (with a predicate or with None)
\* before the statement is built, the statement is built before the
\* execution is issued, and no execution is issued before both enrichment
\* steps have ended.
C13_StepsInStrictOrder ==
    op = "get_activities_tool" =>
        /\ pc = "embed" =>
              (req.embed = "" /\ req.where = "" /\ sql_query = <<>> /\ ~call.active)
        /\ pc = "where" =>
              /\ req.embed \in {"skipped", "ok", "failed"}
              /\ req.where = ""
              /\ sql_query = <<>>
              /\ ~call.active
        /\ pc = "exec" =>
              /\ req.embed \in {"skipped", "ok", "failed"}
              /\ req.where \in {"ok", "failed"}
              /\ sql_query # <<>>
              /\ ~call.active
        /\ call.active =>
              /\ pc \in {"returned", "raised"}
              /\ req.embed \in {"skipped", "ok", "failed"}
              /\ req.where \in {"ok", "failed"}

\* A request whose embedding step and predicate step both ran and whose
\* statement was executed.
C13_Witness ==
    /\ op = "get_activities_tool"
    /\ pc = "returned"
    /\ req.embed = "ok"
    /\ req.where = "ok"
    /\ call.active
    /\ call.executes = 1

\* The statement, as the backend reads it, has the clause ORDER BY score ASC.
OrdersByScoreAscending(s) ==
    ContainsText(StripComment(s), <<"O","R","D","E","R"," ","B","Y"," ","s","c","o","r","e",
                                    " ","A","S","C">>)

\* C14: the statement built by get_activities_tool has a vector-distance
\* score column over the stored embedding and the literal vector if and only
\* if an embedding was obtained, otherwise the score column is the constant
\* 0, and in both cases the statement orders by score ascending.
C14_ScoreColumnFollowsEmbedding ==
    (op = "get_activities_tool" /\ pc = "exec") =>
        /\ req.embed = "ok" <=> HasVectorDistance(sql_query)
        /\ req.embed = "ok" =>
              /\ ~embedding.is_none
              /\ ContainsText(sql_query, <<"e","m","b","e","d","d","i","n","g">>)
              /\ ContainsText(sql_query,
                              <<"'">> \o EmbeddingToChars(embedding.value) \o <<"'">>)
        /\ req.embed # "ok" =>
              ContainsText(sql_query, <<",", " ", "0", " ", "A", "S", " ", "s", "c", "o",
                                        "r", "e", " ", "F", "R", "O", "M">>)
        /\ OrdersByScoreAscending(sql_query)

\* C15: the statement built by get_activities_tool has a WHERE clause if and
\* only if the compiled predicate is present (not None, not empty); the
\* clause is then the predicate text as the compiler returned it, between
\* FROM activities and ORDER BY; and with an embedding and a predicate both
\* present the statement has the vector-distance score and the WHERE clause.
C15_WhereClauseIsThePredicate ==
    (op = "get_activities_tool" /\ pc = "exec") =>
        LET present == ~where_clause.is_none /\ where_clause.value # <<>>
        IN  /\ HasWhereClause(sql_query) <=> present
            /\ present =>
                  ContainsText(sql_query,
                      <<"F","R","O","M"," ","a","c","t","i","v","i","t","i","e","s"," ",
                        "W","H","E","R","E"," ">>
                      \o where_clause.value
                      \o <<" ","O","R","D","E","R"," ","B","Y"," ","s","c","o","r","e">>)
            /\ ~present =>
                  ContainsText(sql_query,
                      <<"F","R","O","M"," ","a","c","t","i","v","i","t","i","e","s"," ",
                        "O","R","D","E","R"," ","B","Y"," ","s","c","o","r","e">>)
            /\ (present /\ req.embed = "ok") =>
                  (HasVectorDistance(sql_query) /\ HasWhereClause(sql_query))

\* A statement built with an embedding and a predicate both present.
C15_Witness ==
    /\ op = "get_activities_tool"
    /\ pc = "exec"
    /\ req.embed = "ok"
    /\ req.where = "ok"
    /\ where_clause.value # <<>>
    /\ HasVectorDistance(sql_query)
    /\ HasWhereClause(sql_query)

\* Position of the first occurrence of the text t in s, 0 when there is none.
FirstIndex(s, t) ==
    LET at == { i \in 1..(Len(s) - Len(t) + 1) : SubSeq(s, i, i + Len(t) - 1) = t }
    IN  IF at = {} THEN 0 ELSE CHOOSE i \in at : \A j \in at : i <= j

\* The statement up to the end of its projected columns (... sight_id ).
ProjectedColumns(s) ==
    SubSeq(s, 1, FirstIndex(s, <<"s","i","g","h","t","_","i","d"," ">>) + 8)

\* The statement from the end of its score expression (AS score FROM ...).
AfterScoreExpression(s) ==
    SubSeq(s, FirstIndex(s, <<"A","S"," ","s","c","o","r","e"," ">>), Len(s))

\* C16: for the embedding, the predicate and the max_rows of a request, the
\* statement built for postgres and the statement built for sqlite are the
\* same except for the vector-distance score expression: same projected
\* columns, same FROM, WHERE, ORDER BY score ASC and LIMIT; without an
\* embedding the two statements are the same text.
C16_DialectsDifferInScoreOnly ==
    (op = "get_activities_tool" /\ pc = "exec") =>
        LET pg == BuildSqlQuery("postgres", embedding, where_clause, max_rows)
            sq == BuildSqlQuery("sqlite", embedding, where_clause, max_rows)
        IN  /\ sql_query = (IF db_type = "postgres" THEN pg ELSE sq)
            /\ FirstIndex(pg, <<"s","i","g","h","t","_","i","d"," ">>) > 0
            /\ FirstIndex(pg, <<"A","S"," ","s","c","o","r","e"," ">>) > 0
            /\ ProjectedColumns(pg) = ProjectedColumns(sq)
            /\ AfterScoreExpression(pg) = AfterScoreExpression(sq)
            /\ ContainsText(AfterScoreExpression(pg),
                            <<"O","R","D","E","R"," ","B","Y"," ","s","c","o","r","e"," ",
                              "A","S","C"," ","L","I","M","I","T"," ">>
                            \o IntToChars(max_rows) \o <<";">>)
            /\ req.embed # "ok" => pg = sq

\* A request with an embedding and a predicate, for which the statements of
\* the two backends differ.
C16_Witness ==
    /\ op = "get_activities_tool"
    /\ pc = "exec"
    /\ req.embed = "ok"
    /\ Truthy(where_clause)
    /\ BuildSqlQuery("postgres", embedding, where_clause, max_rows)
          # BuildSqlQuery("sqlite", embedding, where_clause, max_rows)

\* C17: no step is retried within one get_activities_tool request: the
\* embedding service is called at most once, the predicate model at most
\* once, get_db_connection at most once with at most one attempt to
\* establish a connection, and the statement is executed at most once,
\* whatever fails.
C17_NoRetryWithinRequest ==
    op = "get_activities_tool" =>
        /\ req.embed_calls <= 1
        /\ req.where_calls <= 1
        /\ call.acquisitions <= 1
        /\ call.connects <= 1
        /\ call.cursors <= 1
        /\ call.executes <= 1
        /\ (call.active /\ call.failure \in {"gate", "connection"}) => call.executes = 0

\* A request in which the embedding, the predicate compilation and the
\* connection all failed, each after one attempt.
C17_Witness ==
    /\ op = "get_activities_tool"
    /\ req.embed = "failed"
    /\ req.embed_calls = 1
    /\ req.where = "failed"
    /\ req.where_calls = 1
    /\ call.active
    /\ call.failure = "connection"
    /\ call.connects = 1

\* C18: setup_postgres_client returns a cached Postgres connection only
\* after the liveness probe on it succeeded in that acquisition; when the
\* probe fails the cached connection is discarded and one new connection is
\* attempted in the same acquisition, which is what is cached and returned
\* (None when it cannot be established): a dead connection is never
\* returned.
C18_ProbeBeforeReuse ==
    (acq.active /\ acq.backend = "postgres" /\ acq.cached_before # NoConn) =>
        /\ acq.probe_ok => (acq.ret = acq.cached_before /\ acq.connects = 0)
        /\ ~acq.probe_ok =>
              /\ acq.ret # acq.cached_before
              /\ acq.connects = 1
              /\ acq.ret \in {NoConn, created}
              /\ _postgres_conn = acq.ret
        /\ acq.ret # NoConn => ~pg_dead

\* The probe failed on the cached connection and a new connection was
\* established and returned in the same acquisition.
C18_Witness ==
    /\ acq.active
    /\ acq.backend = "postgres"
    /\ acq.cached_before # NoConn
    /\ ~acq.probe_ok
    /\ acq.ret # NoConn
    /\ acq.ret # acq.cached_before

\* C19: every Postgres connection returned by a successful
\* setup_postgres_client acquisition is backed by the activities table: when
\* the table is absent at connect time the bootstrap script has run before
\* the connection is cached and returned, the script file missing at the
\* configured path included.
C19_PostgresConnectionHasTable ==
    (acq.active /\ acq.backend = "postgres" /\ acq.ret # NoConn) =>
        (pg_table_exists /\ _postgres_conn = acq.ret)

FixedColumnCount(s) ==
    LET stops == { i \in 1..Len(s) : s[i] \in {"(", "0"} }
        stop  == IF stops = {} THEN Len(s) + 1
                 ELSE CHOOSE i \in stops : \A j \in stops : i <= j
    IN  Cardinality({ i \in 1..(stop - 1) : s[i] = "," })

\* C21: every statement built by get_activities_tool, on both backends,
\* projects exactly seven fixed columns and one computed score column.
C21_SevenColumnsAndScore ==
    (op = "get_activities_tool" /\ pc = "exec") =>
        /\ FixedColumnCount(sql_query) = 7
        /\ ContainsText(sql_query, <<" ","A","S"," ","s","c","o","r","e"," ","F","R","O","M",
                                     " ">>)

\* C22: when several callers acquire the SQLite connection at the same time
\* without locking, no caller is given the cached connection before the
\* bootstrap script has finished on it, and the bootstrap script runs on
\* one connection only, in every interleaving.
C22_ConcurrentAcquisitionSafe ==
    /\ \A t \in Threads :
          (thread[t].pc \in {"returned", "used", "use_failed"} /\ thread[t].ret # NoConn)
              => sqlite_conns[thread[t].ret].hydrated
    /\ Cardinality({ h \in 1..Len(sqlite_conns) : sqlite_conns[h].hydrated }) <= 1

\* C23: get_data_from_db_tool never tears down the shared connection: when
\* it ends, by returning or raising, every cursor it opened is closed, the
\* connection it obtained is still the cached one, a cached connection that
\* answered before the call is the same handle and still answers, the
\* cached handle of the other backend is untouched, and a call stopped by the
\* gate leaves the whole connection state as it was.
C23_SharedConnectionKept ==
    call.active =>
        LET other  == IF db_type = "postgres" THEN "sqlite" ELSE "postgres"
            before == Cached(call.before, db_type)
            after  == Cached(call.after, db_type)
            alive_before == before # NoConn /\ (db_type = "postgres" => ~call.before.pg_dead)
        IN  /\ call.open_cursors = 0
            /\ call.cursors <= 1
            /\ Cached(call.after, other) = Cached(call.before, other)
            /\ call.acquisitions = 0 => call.after = call.before
            /\ (call.acquisitions > 0 /\ acq.ret # NoConn) => after = acq.ret
            /\ alive_before =>
                  /\ after = before
                  /\ db_type = "postgres" => ~call.after.pg_dead
                  /\ call.after.created = call.before.created

\* A statement failed on a cursor of the cached connection, which is still
\* cached afterwards.
C23_Witness ==
    /\ call.active
    /\ call.failure = "execution"
    /\ call.cursors = 1
    /\ call.open_cursors = 0
    /\ Cached(call.before, db_type) # NoConn
    /\ Cached(call.after, db_type) = Cached(call.before, db_type)

\* The policy service was asked about the request and reported a match.
PolicyMatched ==
    /\ guard.request # <<>>
    /\ SelectSeq(guard.request[Len(guard.request)], HasText) # <<>>
    /\ guard.armor
    /\ guard.policy = "match"

====
